---- MODULE Spec2Model ----
(***************************************************************************)
(* Model of the two-stage document ingestion pipeline                      *)
(*   src/kfp/pipeline.py          document_ingestion_pipeline (coordinator)*)
(*   src/kfp/component_convert.py convert_pdfs_to_markdown      (Stage A)  *)
(*   src/kfp/component_embed.py   generate_embeddings_and_store (Stage B)  *)
(* The object store and the embedding service are external collaborators; *)
(* their state is part of the model and their failures are inputs chosen   *)
(* at the call.                                                            *)
(***************************************************************************)
EXTENDS Integers, Sequences, FiniteSets, TLC

VARIABLES
    store,     \* object store: input bucket, intermediate (markdown) bucket
    svc,       \* embedding service: the registered vector databases
    coord,     \* coordinator state of the current pipeline run
    run,       \* number of the current pipeline run
    A,         \* local state of convert_pdfs_to_markdown in this run
    B          \* local state of generate_embeddings_and_store in this run

vars == <<store, svc, coord, run, A, B>>

(***************************************************************************)
(* Bounds of the model.                                                    *)
(***************************************************************************)
MaxObjects == 2     \* at most this many objects in the input bucket
MaxRuns == 2        \* at most this many pipeline runs against the same services

(***************************************************************************)
(* String functions of the Python standard library, as the code uses them. *)
(***************************************************************************)
UpperLetters == "ABCDEFGHIJKLMNOPQRSTUVWXYZ"
LowerLetters == "abcdefghijklmnopqrstuvwxyz"

CharAt(s, i) == SubSeq(s, i, i)

\* str.lower() on one character
LowerChar(c) ==
    IF \E i \in 1..26 : CharAt(UpperLetters, i) = c
    THEN LET i == CHOOSE k \in 1..26 : CharAt(UpperLetters, k) = c
         IN  CharAt(LowerLetters, i)
    ELSE c

RECURSIVE Lower(_)
\* str.lower()
Lower(s) ==
    IF Len(s) = 0 THEN ""
    ELSE LowerChar(CharAt(s, 1)) \o Lower(SubSeq(s, 2, Len(s)))

\* str.endswith(suffix)
EndsWith(s, suffix) ==
    /\ Len(s) >= Len(suffix)
    /\ SubSeq(s, Len(s) - Len(suffix) + 1, Len(s)) = suffix

\* str.startswith(prefix): how list_objects(prefix=...) selects keys
StartsWith(s, prefix) ==
    /\ Len(s) >= Len(prefix)
    /\ SubSeq(s, 1, Len(prefix)) = prefix

RECURSIVE RFind(_, _, _)
\* str.rfind(c) searched downwards from position i; 0 when c does not occur
RFind(s, c, i) ==
    IF i = 0 THEN 0
    ELSE IF CharAt(s, i) = c THEN i
    ELSE RFind(s, c, i - 1)

\* os.path.basename(p): everything after the last "/"
Basename(p) == SubSeq(p, RFind(p, "/", Len(p)) + 1, Len(p))

\* os.path.splitext(p)[0]: p up to its last dot, unless that dot only
\* follows leading dots of the file name (".pdf" has no extension)
SplitextRoot(p) ==
    LET sepIndex == RFind(p, "/", Len(p))
        dotIndex == RFind(p, ".", Len(p))
    IN  IF /\ dotIndex > sepIndex
           /\ \E k \in (sepIndex + 1)..(dotIndex - 1) : CharAt(p, k) # "."
        THEN SubSeq(p, 1, dotIndex - 1)
        ELSE p

\* os.path.join(dir, name) for a relative name
PathJoin(dir, name) == dir \o "/" \o name

(***************************************************************************)
(* Configuration and fixed values of the code.                             *)
(***************************************************************************)
pdf_dir == "/tmp/pdfs"
markdown_dir == "/tmp/markdown"
output_prefix == "markdown/"        \* MARKDOWN_DOCS_PREFIX, Stage A
markdown_prefix_Other == "md/"      \* markdown_prefix read from another setting
markdown_prefix == "markdown/"      \* MARKDOWN_DOCS_PREFIX, Stage B
vector_db_id == "kb"                \* VECTOR_DB_ID
None == "<None>"                    \* Python's None

(***************************************************************************)
(* Files and buckets: finite maps from a name to a content.                *)
(***************************************************************************)
EmptyMap == [k \in {} |-> ""]
Put(f, k, v) == [x \in (DOMAIN f) \cup {k} |-> IF x = k THEN v ELSE f[x]]

\* The characters of the object keys, in ascending byte order.
ByteOrder == " #%./0123456789ABCDEFGHIJKLMNOPQRSTUVWXYZ_abcdefghijklmnopqrstuvwxyz"
CharRank(c) == CHOOSE r \in 1..Len(ByteOrder) : CharAt(ByteOrder, r) = c

RECURSIVE KeyLess(_, _)
\* s sorts before t in the byte order of the keys
KeyLess(s, t) ==
    IF Len(t) = 0 THEN FALSE
    ELSE IF Len(s) = 0 THEN TRUE
    ELSE IF CharAt(s, 1) = CharAt(t, 1)
         THEN KeyLess(SubSeq(s, 2, Len(s)), SubSeq(t, 2, Len(t)))
         ELSE CharRank(CharAt(s, 1)) < CharRank(CharAt(t, 1))

RECURSIVE SortedKeys(_)
\* the keys of S in the order list_objects returns them (ascending)
SortedKeys(S) ==
    IF S = {} THEN << >>
    ELSE LET m == CHOOSE k \in S : \A o \in S \ {k} : KeyLess(k, o)
         IN  <<m>> \o SortedKeys(S \ {m})

\* client.list_objects(bucket, prefix=prefix, recursive=True)
ListObjects(keys, prefix) == SortedKeys({ k \in keys : StartsWith(k, prefix) })

\* The object keys the input bucket may hold.
InputKeySet == { ".pdf", "a.PDF", "a.pdf", "b.pdf", "d/a.pdf", "notes.txt" }

\* content of the PDF stored under an input key
PdfContent(key) == "%PDF " \o key

\* document.export_to_markdown() for a PDF that has text
ExportToMarkdown(pdf) == "# " \o pdf

(***************************************************************************)
(* Initial state: the external services as a run may find them, and the    *)
(* pipeline not started.                                                   *)
(***************************************************************************)
AIdle ==
    [ pc |-> "idle",
      objects |-> << >>,        \* client.list_objects(input_bucket)
      i |-> 1,                  \* position of "for obj in objects"
      fs |-> EmptyMap,          \* local files of the container, path -> content
      pdf_files |-> << >>,
      j |-> 1,                  \* position of "for pdf_path in pdf_files"
      successful |-> 0,
      failed |-> 0,
      todo |-> {},              \* entries of os.listdir still to visit
      uploaded |-> 0,
      fget_calls |-> << >>,     \* object names passed to fget_object
      convert_calls |-> << >>,  \* outcome of each converter.convert call
      fput_calls |-> {},        \* object name and outcome of each fput_object
      error |-> None ]          \* the exception the outer handler re-raises

BIdle ==
    [ pc |-> "idle",
      models |-> << >>,               \* llama_client.models.list()
      embedding_model_id |-> None,
      embedding_dimension |-> 0,
      actual_vector_db_id |-> None,
      objects |-> << >>,              \* minio_client.list_objects(...)
      i |-> 1,                        \* position of "for obj in objects"
      fs |-> EmptyMap,                \* local files of the container
      markdown_files |-> << >>,
      idx |-> 1,                      \* position of "for idx, md_file in ..."
      successful |-> 0,
      failed |-> 0,
      register_calls |-> 0,           \* calls of vector_dbs.register
      fget_calls |-> << >>,           \* object names passed to fget_object
      insert_calls |-> << >>,         \* documents passed to rag_tool.insert
      error |-> None ]                \* the exception the outer handler re-raises

InputBuckets ==
    { S \in SUBSET InputKeySet : Cardinality(S) <= MaxObjects }

MarkdownBuckets ==
    { [exists |-> FALSE, objs |-> EmptyMap],
      [exists |-> TRUE, objs |-> EmptyMap],
      [exists |-> TRUE,
       objs |-> Put(Put(EmptyMap, "markdown/notes.txt", "notes"), "other/c.md", "c")],
      [exists |-> TRUE,
       objs |-> Put(Put(EmptyMap, "markdown/a.md", ""), "markdown/b.md", "hello")],
      [exists |-> TRUE,
       objs |-> Put(Put(Put(EmptyMap, "markdown/old/a.md", "old text"),
                        "markdown/readme.txt", "read me"), "other/c.md", "c")] }

\* a vector database as the embedding service lists it
VectorDb(id, name, model, dimension) ==
    [ identifier |-> id, vector_db_name |-> name,
      embedding_model |-> model, embedding_dimension |-> dimension,
      provider_id |-> "milvus-remote" ]

\* the vector databases the embedding service may hold before the first run
VectorDbLists ==
    { << >>,
      << VectorDb("faq", None, "minilm", 384) >>,
      << VectorDb("faq", None, "minilm", 384), VectorDb("kb", None, "minilm", 384) >>,
      << VectorDb("vs_0", "kb", "mpnet", 768) >> }

Init ==
    /\ \E in_exists \in BOOLEAN, objs \in InputBuckets, md \in MarkdownBuckets :
          /\ (~in_exists => objs = {})
          /\ store = [ input_exists |-> in_exists,
                       input |-> objs,
                       markdown_exists |-> md.exists,
                       markdown |-> md.objs ]
    /\ \E dbs \in VectorDbLists : svc = [ vector_dbs |-> dbs ]
    /\ coord = "NotStarted"
    /\ run = 1
    /\ A = AIdle
    /\ B = BIdle

(***************************************************************************)
(* Coordinator: document_ingestion_pipeline.                               *)
(***************************************************************************)
\* convert_task has no dependency: it is the first task the run starts.
StartStageA ==
    /\ coord = "NotStarted"
    /\ A.pc = "idle"
    /\ coord' = "StageARunning"
    /\ A' = [A EXCEPT !.pc = "check"]
    /\ UNCHANGED <<store, svc, run, B>>

\* StartStageB without "embed_task.after(convert_task)": the task is started
\* as soon as the run is under way.
StartStageB_NoAfter ==
    /\ coord \in {"StageARunning", "StageADone"}
    /\ B.pc = "idle"
    /\ coord' = "StageBRunning"
    /\ B' = [B EXCEPT !.pc = "models"]
    /\ UNCHANGED <<store, svc, run, A>>

\* embed_task.after(convert_task): started once convert_task has succeeded.
\* Stage A's container is gone by then, and its variables and local files
\* with it; what it asked of the object store stays on record.
StartStageB ==
    /\ coord = "StageADone"
    /\ B.pc = "idle"
    /\ coord' = "StageBRunning"
    /\ B' = [B EXCEPT !.pc = "models"]
    /\ A' = [AIdle EXCEPT !.pc = A.pc, !.fput_calls = A.fput_calls]
    /\ UNCHANGED <<store, svc, run>>

\* A new run of the compiled pipeline ("Create a run") once the last one ended:
\* fresh containers, the same object store and embedding service.
NewRun ==
    /\ coord \in {"StageBDone", "Failed"}
    /\ run < MaxRuns
    /\ run' = run + 1
    /\ coord' = "NotStarted"
    /\ A' = AIdle
    /\ B' = BIdle
    /\ UNCHANGED <<store, svc>>

(***************************************************************************)
(* Stage A: convert_pdfs_to_markdown.                                      *)
(***************************************************************************)
\* The outer "except Exception: ... raise": the task fails, and the run with it.
AFatal(a, e) == [a EXCEPT !.pc = "raised", !.error = e]

\* InputBucketMissing with the check left out
InputBucketMissing_NoCheck(s) == FALSE

\* "if not client.bucket_exists(input_bucket)"
InputBucketMissing(s) == ~s.input_exists

\* Bucket checks and the listing of the input bucket.
A_CheckBuckets ==
    /\ coord = "StageARunning"
    /\ A.pc = "check"
    /\ IF InputBucketMissing(store)
       THEN /\ A' = AFatal(A, "ValueError: input bucket does not exist")
            /\ coord' = "Failed"
            /\ UNCHANGED store
       ELSE /\ store' = [store EXCEPT !.markdown_exists = TRUE]
            /\ A' = [A EXCEPT !.pc = "download",
                              !.objects = ListObjects(store.input, ""),
                              !.i = 1,
                              !.pdf_files = << >>]
            /\ UNCHANGED coord
    /\ UNCHANGED <<svc, run, B>>

\* IsPdf without the extension test
IsPdf_NoFilter(object_name) == TRUE

\* the filter of the download loop
IsPdf(object_name) == EndsWith(Lower(object_name), ".pdf")

\* One iteration of "for obj in objects".
A_Download ==
    /\ coord = "StageARunning"
    /\ A.pc = "download"
    /\ A.i <= Len(A.objects)
    /\ LET object_name == A.objects[A.i]
           file_name == Basename(object_name)
           local_path == PathJoin(pdf_dir, file_name)
       IN  IF ~IsPdf(object_name)
           THEN /\ A' = [A EXCEPT !.i = @ + 1]
                /\ UNCHANGED coord
           ELSE \E ok \in BOOLEAN :
                  IF ok
                  THEN /\ A' = [A EXCEPT
                                  !.i = @ + 1,
                                  !.fs = Put(@, local_path, PdfContent(object_name)),
                                  !.pdf_files = Append(@, local_path),
                                  !.fget_calls = Append(@, object_name)]
                       /\ UNCHANGED coord
                  ELSE /\ A' = AFatal([A EXCEPT !.fget_calls = Append(@, object_name)],
                                      "S3Error: fget_object")
                       /\ coord' = "Failed"
    /\ UNCHANGED <<store, svc, run, B>>

\* "if len(pdf_files) == 0: return", else the start of the conversion loop.
A_CheckFound ==
    /\ coord = "StageARunning"
    /\ A.pc = "download"
    /\ A.i > Len(A.objects)
    /\ IF Len(A.pdf_files) = 0
       THEN /\ A' = [A EXCEPT !.pc = "returned"]
            /\ coord' = "StageADone"
       ELSE /\ A' = [A EXCEPT !.pc = "convert", !.j = 1,
                              !.successful = 0, !.failed = 0]
            /\ UNCHANGED coord
    /\ UNCHANGED <<store, svc, run, B>>

\* MarkdownName that appends ".md" to the whole file name
MarkdownName_KeepExt(pdf_path) == Basename(pdf_path) \o ".md"

\* the name of the Markdown file written for a downloaded PDF
MarkdownName(pdf_path) == SplitextRoot(Basename(pdf_path)) \o ".md"

\* what converter.convert may do: raise, or give a document whose Markdown
\* is empty or has text
ConvertOutcomes == {"raise", "blank", "text"}

\* AfterFailedConversion that tries the same file again
AfterFailedConversion_Retry(j) == j

\* "except Exception: failed += 1; continue": the loop goes on with the next file
AfterFailedConversion(j) == j + 1

\* One iteration of "for pdf_path in pdf_files".
A_Convert ==
    /\ coord = "StageARunning"
    /\ A.pc = "convert"
    /\ A.j <= Len(A.pdf_files)
    /\ LET pdf_path == A.pdf_files[A.j]
           markdown_path == PathJoin(markdown_dir, MarkdownName(pdf_path))
       IN  \E outcome \in ConvertOutcomes :
             IF outcome = "raise"
             THEN A' = [A EXCEPT !.j = AfterFailedConversion(@),
                                 !.failed = @ + 1,
                                 !.convert_calls = Append(@, outcome)]
             ELSE A' = [A EXCEPT
                          !.j = @ + 1,
                          !.fs = Put(@, markdown_path,
                                     IF outcome = "blank" THEN ""
                                     ELSE ExportToMarkdown(A.fs[pdf_path])),
                          !.successful = @ + 1,
                          !.convert_calls = Append(@, outcome)]
    /\ UNCHANGED <<store, svc, coord, run, B>>

\* os.listdir(dir): the names of the files directly in dir
ListDir(fs, dir) ==
    { Basename(p) : p \in { q \in DOMAIN fs : StartsWith(q, dir \o "/") } }

\* End of the conversion loop: "uploaded = 0" and os.listdir(markdown_dir).
A_StartUpload ==
    /\ coord = "StageARunning"
    /\ A.pc = "convert"
    /\ A.j > Len(A.pdf_files)
    /\ A' = [A EXCEPT !.pc = "upload",
                      !.uploaded = 0,
                      !.todo = ListDir(A.fs, markdown_dir)]
    /\ UNCHANGED <<store, svc, coord, run, B>>

\* what fput_object may do: succeed, raise S3Error, raise another exception
\* (a connection error, a ServerError, an InvalidResponseError)
FputOutcomes == {"ok", "S3Error", "OtherError"}

\* the exception types "except S3Error" catches
UploadCaught(outcome) == outcome = "S3Error"

\* One iteration of "for md_file in os.listdir(markdown_dir)", in any order.
A_Upload ==
    /\ coord = "StageARunning"
    /\ A.pc = "upload"
    /\ \E md_file \in A.todo :
         LET local_path == PathJoin(markdown_dir, md_file)
             object_name == output_prefix \o md_file
             rest == A.todo \ {md_file}
         IN  IF ~EndsWith(md_file, ".md")
             THEN /\ A' = [A EXCEPT !.todo = rest]
                  /\ UNCHANGED <<store, coord>>
             ELSE \E outcome \in FputOutcomes :
                    LET call == [object_name |-> object_name, outcome |-> outcome]
                    IN  IF outcome = "ok"
                        THEN /\ store' = [store EXCEPT
                                   !.markdown = Put(@, object_name, A.fs[local_path])]
                             /\ A' = [A EXCEPT !.todo = rest,
                                               !.uploaded = @ + 1,
                                               !.fput_calls = @ \cup {call}]
                             /\ UNCHANGED coord
                        ELSE IF UploadCaught(outcome)
                        THEN /\ A' = [A EXCEPT !.todo = rest,
                                               !.fput_calls = @ \cup {call}]
                             /\ UNCHANGED <<store, coord>>
                        ELSE /\ A' = AFatal([A EXCEPT !.fput_calls = @ \cup {call}],
                                            "OtherError: fput_object")
                             /\ coord' = "Failed"
                             /\ UNCHANGED store
    /\ UNCHANGED <<svc, run, B>>

\* The summary: the function returns and the task succeeds.
A_Summary ==
    /\ coord = "StageARunning"
    /\ A.pc = "upload"
    /\ A.todo = {}
    /\ A' = [A EXCEPT !.pc = "returned"]
    /\ coord' = "StageADone"
    /\ UNCHANGED <<store, svc, run, B>>

(***************************************************************************)
(* Stage B: generate_embeddings_and_store.                                 *)
(***************************************************************************)
\* The outer "except Exception: ... raise" of Stage B.
BFatal(b, e) == [b EXCEPT !.pc = "raised", !.error = e]

Model(id, type, metadata) ==
    [ identifier |-> id, model_type |-> type, metadata |-> metadata ]

\* the metadata of a model that reports its dimension, and of one that does not
Dimension(d) == [ k \in {"embedding_dimension"} |-> d ]
NoMetadata == [ k \in {} |-> 0 ]

\* dict.get(key, default)
DictGet(dict, key, default) == IF key \in DOMAIN dict THEN dict[key] ELSE default

\* what llama_client.models.list() may return
ModelLists ==
    { << >>,
      << Model("llama", "llm", NoMetadata) >>,
      << Model("llama", "llm", NoMetadata), Model("minilm", "embedding", Dimension(384)),
         Model("mpnet", "embedding", NoMetadata) >>,
      << Model("mpnet", "embedding", NoMetadata),
         Model("minilm", "embedding", Dimension(384)) >> }

\* FirstEmbedding without the "break": the last embedding model wins
FirstEmbedding_NoBreak(models) ==
    IF \E k \in 1..Len(models) : models[k].model_type = "embedding"
    THEN CHOOSE k \in 1..Len(models) :
            /\ models[k].model_type = "embedding"
            /\ \A l \in (k + 1)..Len(models) : models[l].model_type # "embedding"
    ELSE 0

\* "for model in models: if model.model_type == 'embedding': ... break":
\* the position of the model the loop stops at, 0 when it runs to the end
FirstEmbedding(models) ==
    IF \E k \in 1..Len(models) : models[k].model_type = "embedding"
    THEN CHOOSE k \in 1..Len(models) :
            /\ models[k].model_type = "embedding"
            /\ \A l \in 1..(k - 1) : models[l].model_type # "embedding"
    ELSE 0

\* Model discovery.
B_DiscoverModel ==
    /\ coord = "StageBRunning"
    /\ B.pc = "models"
    /\ \E models \in ModelLists :
         LET k == FirstEmbedding(models)
         IN  IF k = 0
             THEN /\ B' = BFatal([B EXCEPT !.models = models],
                                 "ValueError: no embedding model")
                  /\ coord' = "Failed"
             ELSE /\ B' = [B EXCEPT
                             !.pc = "vector_db",
                             !.models = models,
                             !.embedding_model_id = models[k].identifier,
                             !.embedding_dimension =
                                 DictGet(models[k].metadata,
                                         "embedding_dimension", 768)]
                  /\ UNCHANGED coord
    /\ UNCHANGED <<store, svc, run, A>>

\* DbMatches without the comparison of vector_db_name
DbMatches_IdentifierOnly(db, target) == db.identifier = target

\* "db.identifier == vector_db_id or getattr(db, 'vector_db_name', None) == vector_db_id"
DbMatches(db, target) == db.identifier = target \/ db.vector_db_name = target

\* "for db in existing_dbs: if <matches>: ... break": the position of the
\* vector database the loop stops at, 0 when it runs to the end
FirstMatch(existing_dbs, target) ==
    IF \E k \in 1..Len(existing_dbs) : DbMatches(existing_dbs[k], target)
    THEN CHOOSE k \in 1..Len(existing_dbs) :
            /\ DbMatches(existing_dbs[k], target)
            /\ \A l \in 1..(k - 1) : ~DbMatches(existing_dbs[l], target)
    ELSE 0

\* what vector_dbs.register may do: raise, register under the identifier
\* asked for, or register under an identifier of its own and keep the one
\* asked for as vector_db_name
RegisterOutcomes == {"raise", "same_id", "generated_id"}

\* Collection resolution: find the vector database or register it.
B_ResolveCollection ==
    /\ coord = "StageBRunning"
    /\ B.pc = "vector_db"
    /\ \E list_ok \in BOOLEAN :
         IF ~list_ok
         THEN /\ B' = BFatal(B, "Error: vector_dbs.list")
              /\ coord' = "Failed"
              /\ UNCHANGED svc
         ELSE LET existing_dbs == svc.vector_dbs
                  k == FirstMatch(existing_dbs, vector_db_id)
                  found == IF k = 0 THEN None ELSE existing_dbs[k].identifier
              IN  IF found # None /\ found # ""
                  THEN /\ B' = [B EXCEPT !.pc = "list", !.actual_vector_db_id = found]
                       /\ UNCHANGED <<svc, coord>>
                  ELSE \E outcome \in RegisterOutcomes :
                         IF outcome = "raise"
                         THEN /\ B' = BFatal([B EXCEPT !.register_calls = @ + 1],
                                             "Error: vector_dbs.register")
                              /\ coord' = "Failed"
                              /\ UNCHANGED svc
                         ELSE LET id == IF outcome = "same_id" THEN vector_db_id
                                        ELSE "vs_" \o vector_db_id
                                  name == IF outcome = "same_id" THEN None
                                          ELSE vector_db_id
                                  vector_db == VectorDb(id, name, B.embedding_model_id,
                                                        B.embedding_dimension)
                              IN  /\ svc' = [svc EXCEPT
                                               !.vector_dbs = Append(@, vector_db)]
                                  /\ B' = [B EXCEPT
                                             !.pc = "list",
                                             !.register_calls = @ + 1,
                                             !.actual_vector_db_id = vector_db.identifier]
                                  /\ UNCHANGED coord
    /\ UNCHANGED <<store, run, A>>

\* Bucket check and the listing of the intermediate location.
B_ListMarkdown ==
    /\ coord = "StageBRunning"
    /\ B.pc = "list"
    /\ IF ~store.markdown_exists
       THEN /\ B' = BFatal(B, "ValueError: markdown bucket does not exist")
            /\ coord' = "Failed"
       ELSE /\ B' = [B EXCEPT
                       !.pc = "download",
                       !.objects = ListObjects(DOMAIN store.markdown, markdown_prefix),
                       !.i = 1,
                       !.markdown_files = << >>]
            /\ UNCHANGED coord
    /\ UNCHANGED <<store, svc, run, A>>

\* the filter of Stage B's download loop
IsMarkdown(object_name) == EndsWith(Lower(object_name), ".md")

\* One iteration of "for obj in objects".
B_Download ==
    /\ coord = "StageBRunning"
    /\ B.pc = "download"
    /\ B.i <= Len(B.objects)
    /\ LET object_name == B.objects[B.i]
           file_name == Basename(object_name)
           local_path == PathJoin(markdown_dir, file_name)
       IN  IF ~IsMarkdown(object_name)
           THEN /\ B' = [B EXCEPT !.i = @ + 1]
                /\ UNCHANGED coord
           ELSE \E ok \in BOOLEAN :
                  IF ok
                  THEN /\ B' = [B EXCEPT
                                  !.i = @ + 1,
                                  !.fs = Put(@, local_path, store.markdown[object_name]),
                                  !.markdown_files =
                                      Append(@, [path |-> local_path,
                                                 name |-> file_name,
                                                 object_name |-> object_name]),
                                  !.fget_calls = Append(@, object_name)]
                       /\ UNCHANGED coord
                  ELSE /\ B' = BFatal([B EXCEPT !.fget_calls = Append(@, object_name)],
                                      "S3Error: fget_object")
                       /\ coord' = "Failed"
    /\ UNCHANGED <<store, svc, run, A>>

\* B_CheckFound that treats an empty intermediate location as an error
B_CheckFound_EmptyIsFatal ==
    /\ coord = "StageBRunning"
    /\ B.pc = "download"
    /\ B.i > Len(B.objects)
    /\ IF Len(B.markdown_files) = 0
       THEN /\ B' = BFatal(B, "ValueError: no markdown files")
            /\ coord' = "Failed"
       ELSE /\ B' = [B EXCEPT !.pc = "embed", !.idx = 1,
                              !.successful = 0, !.failed = 0]
            /\ UNCHANGED coord
    /\ UNCHANGED <<store, svc, run, A>>

\* "if len(markdown_files) == 0: return", else the start of the embedding loop.
B_CheckFound ==
    /\ coord = "StageBRunning"
    /\ B.pc = "download"
    /\ B.i > Len(B.objects)
    /\ IF Len(B.markdown_files) = 0
       THEN /\ B' = [B EXCEPT !.pc = "returned"]
            /\ coord' = "StageBDone"
       ELSE /\ B' = [B EXCEPT !.pc = "embed", !.idx = 1,
                              !.successful = 0, !.failed = 0]
            /\ UNCHANGED coord
    /\ UNCHANGED <<store, svc, run, A>>

\* IsEmptyContent with the test left out
IsEmptyContent_NoTest(content) == FALSE

\* "if len(content) == 0": the file is skipped
IsEmptyContent(content) == Len(content) = 0

\* CountFailed that leaves the counter as it is
CountFailed_NotCounted(failed) == failed

\* "failed += 1" of the embedding loop (empty file, failed insert)
CountFailed(failed) == failed + 1

\* One iteration of "for idx, md_file in enumerate(markdown_files, 1)".
B_Embed ==
    /\ coord = "StageBRunning"
    /\ B.pc = "embed"
    /\ B.idx <= Len(B.markdown_files)
    /\ LET md_file == B.markdown_files[B.idx]
           content == B.fs[md_file.path]
       IN  IF IsEmptyContent(content)
           THEN B' = [B EXCEPT !.idx = @ + 1, !.failed = CountFailed(@)]
           ELSE \E ok \in BOOLEAN :
                  LET call == [ document_id |-> md_file.name,
                                content |-> content,
                                source |-> md_file.object_name,
                                vector_db_id |-> B.actual_vector_db_id,
                                ok |-> ok ]
                  IN  IF ok
                      THEN B' = [B EXCEPT !.idx = @ + 1,
                                          !.successful = @ + 1,
                                          !.insert_calls = Append(@, call)]
                      ELSE B' = [B EXCEPT !.idx = @ + 1,
                                          !.failed = CountFailed(@),
                                          !.insert_calls = Append(@, call)]
    /\ UNCHANGED <<store, svc, coord, run, A>>

\* The summary: the function returns and the task succeeds.
B_Summary ==
    /\ coord = "StageBRunning"
    /\ B.pc = "embed"
    /\ B.idx > Len(B.markdown_files)
    /\ B' = [B EXCEPT !.pc = "returned"]
    /\ coord' = "StageBDone"
    /\ UNCHANGED <<store, svc, run, A>>

(***************************************************************************)
(* Specifications.                                                         *)
(***************************************************************************)
\* One pipeline run.
Next ==
    \/ StartStageA
    \/ A_CheckBuckets
    \/ A_Download
    \/ A_CheckFound
    \/ A_Convert
    \/ A_StartUpload
    \/ A_Upload
    \/ A_Summary
    \/ StartStageB
    \/ B_DiscoverModel
    \/ B_ResolveCollection
    \/ B_ListMarkdown
    \/ B_Download
    \/ B_CheckFound
    \/ B_Embed
    \/ B_Summary

Spec == Init /\ [][Next]_vars

\* Repeated runs against the same object store and embedding service, for an
\* input bucket of at most one object and an empty intermediate bucket.
InitRerun ==
    /\ Init
    /\ store.input_exists
    /\ store.input \subseteq {"a.pdf"}
    /\ store.markdown_exists
    /\ store.markdown = EmptyMap

NextRerun == Next \/ NewRun

SpecRerun == InitRerun /\ [][NextRerun]_vars

(***************************************************************************)
(* Properties.                                                             *)
(***************************************************************************)
Range(seq) == { seq[k] : k \in 1..Len(seq) }

\* the object names Stage A has put into the intermediate bucket in this run
Uploaded == { c.object_name : c \in { x \in A.fput_calls : x.outcome = "ok" } }

\* The input keys taken apart by hand: the base name without its extension,
\* and the extension.
KeyParts(key) ==
    CASE key = ".pdf"      -> [stem |-> "", ext |-> ".pdf"]
      [] key = "a.PDF"     -> [stem |-> "a", ext |-> ".PDF"]
      [] key = "a.pdf"     -> [stem |-> "a", ext |-> ".pdf"]
      [] key = "b.pdf"     -> [stem |-> "b", ext |-> ".pdf"]
      [] key = "d/a.pdf"   -> [stem |-> "a", ext |-> ".pdf"]
      [] key = "notes.txt" -> [stem |-> "notes", ext |-> ".txt"]

Recognized(key) == KeyParts(key).ext \in {".pdf", ".PDF"}

\* the artifact the specification expects for an input key
ExpectedArtifact(key) == "markdown/" \o KeyParts(key).stem \o ".md"

\* Stage A has reached its summary and its container still exists
ASummary == coord = "StageADone" /\ A.pc = "returned" /\ Len(A.pdf_files) > 0

NoConversionFailed == \A k \in 1..Len(A.convert_calls) : A.convert_calls[k] # "raise"
NoUploadFailed == \A c \in A.fput_calls : c.outcome = "ok"

\* C1: within a run the coordinator moves only along NotStarted ->
\* StageARunning -> StageADone -> StageBRunning -> StageBDone, or from a
\* running stage to Failed; Stage B takes no step before Stage A has
\* returned; when Stage A raises, the run is Failed and Stage B has not
\* run; Failed and StageBDone are left by no step.
C1_Transitions ==
    { <<"NotStarted", "StageARunning">>, <<"StageARunning", "StageADone">>,
      <<"StageADone", "StageBRunning">>, <<"StageBRunning", "StageBDone">>,
      <<"StageARunning", "Failed">>, <<"StageBRunning", "Failed">> }

C1_CoordinatorOrder ==
    [][ /\ coord' # coord => <<coord, coord'>> \in C1_Transitions
        /\ B' # B => A.pc = "returned" /\ A'.pc = "returned"
        /\ A'.pc = "raised" => coord' = "Failed" /\ B' = BIdle
        /\ coord \in {"Failed", "StageBDone"} => vars' = vars ]_vars

C1_Witness == coord = "StageBRunning" /\ B.pc = "embed" /\ A.pc = "returned"

\* what Stage B has done with an object Stage A uploaded
C2_Listed(key) == key \in Range(B.objects)
C2_Fetched(key) ==
    /\ key \in Range(B.fget_calls)
    /\ \E n \in 1..Len(B.markdown_files) : B.markdown_files[n].object_name = key
C2_Counted(key) ==
    /\ \E n \in 1..Len(B.markdown_files) :
          B.markdown_files[n].object_name = key /\ n < B.idx
    /\ B.successful + B.failed = Len(B.markdown_files)
    /\ B.successful = Cardinality({ n \in 1..Len(B.insert_calls) : B.insert_calls[n].ok })

C3_OnePerInput ==
    /\ Uploaded = { ExpectedArtifact(k) : k \in store.input }
    /\ Cardinality(Uploaded) = Cardinality(store.input)
    /\ A.uploaded = A.successful

C3_Case ==
    /\ ASummary
    /\ \A k \in store.input : Recognized(k)
    /\ NoConversionFailed
    /\ NoUploadFailed

C3_DistinctNames ==
    /\ \A k \in store.input : KeyParts(k).stem # ""
    /\ \A k1, k2 \in store.input : k1 # k2 => KeyParts(k1).stem # KeyParts(k2).stem

C4_OthersIgnored ==
    /\ \A k \in store.input :
         ~Recognized(k) =>
            /\ k \notin Range(A.fget_calls)
            /\ PathJoin(pdf_dir, Basename(k)) \notin DOMAIN A.fs
            /\ ExpectedArtifact(k) \notin { c.object_name : c \in A.fput_calls }
    /\ Len(A.pdf_files) <= Cardinality({ k \in store.input : Recognized(k) })
    /\ (ASummary /\ store.input = {"a.pdf", "notes.txt"}
          /\ NoConversionFailed /\ NoUploadFailed)
         => /\ Len(A.pdf_files) = 1
            /\ A.successful = 1
            /\ A.failed = 0
            /\ A.uploaded = 1
            /\ Uploaded = {"markdown/a.md"}

C4_Witness ==
    /\ ASummary
    /\ store.input = {"a.pdf", "notes.txt"}
    /\ A.uploaded = 1

\* the number of conversion calls among the first n that raised
RaisedConversions(n) ==
    Cardinality({ k \in 1..n : A.convert_calls[k] = "raise" })

C6_MissingInputIsFatal ==
    (~store.input_exists /\ A.pc \notin {"idle", "check"}) =>
        /\ A.pc = "raised"
        /\ coord = "Failed"
        /\ A.fget_calls = << >>
        /\ A.convert_calls = << >>
        /\ A.fput_calls = {}
        /\ B = BIdle

C6_Witness == ~store.input_exists /\ A.pc = "raised" /\ coord = "Failed"

\* the vector databases of the service that answer to the target identifier
C7_Matching ==
    { k \in 1..Len(svc.vector_dbs) :
         \/ svc.vector_dbs[k].identifier = "kb"
         \/ svc.vector_dbs[k].vector_db_name = "kb" }

\* C7: over repeated runs against the same service at most one vector
\* database answers to the target identifier; register is called only when
\* no listed vector database matches the target, and the identifier Stage B
\* uses is that of a matching vector database of the service.
C7_RegisterOnce ==
    /\ [](Cardinality(C7_Matching) <= 1)
    /\ [](B.actual_vector_db_id # None =>
            \E k \in C7_Matching : svc.vector_dbs[k].identifier = B.actual_vector_db_id)
    /\ [][ B'.register_calls > B.register_calls => C7_Matching = {} ]_vars

C7_Witness ==
    /\ run = 2
    /\ B.actual_vector_db_id = "vs_kb"
    /\ B.register_calls = 0

\* Stage B has asked for the models
C8_Discovered == B.pc \notin {"idle", "models"}

\* C8: when the model list has no embedding model, Stage B raises and makes
\* no insert call; otherwise the model used is the first embedding model of
\* the list.
C8_FirstEmbeddingModel ==
    /\ (C8_Discovered /\ \A k \in 1..Len(B.models) : B.models[k].model_type # "embedding")
          => /\ B.pc = "raised"
             /\ coord = "Failed"
             /\ B.insert_calls = << >>
             /\ B.embedding_model_id = None
    /\ B.embedding_model_id # None =>
          \E k \in 1..Len(B.models) :
             /\ B.models[k].model_type = "embedding"
             /\ B.models[k].identifier = B.embedding_model_id
             /\ \A l \in 1..(k - 1) : B.models[l].model_type # "embedding"

C8_Witness ==
    /\ B.pc = "raised"
    /\ Len(B.models) = 1
    /\ B.models[1].model_type = "llm"

\* the markdown files among the first n whose content is empty
C9_EmptyFiles(n) ==
    { k \in 1..n : B.fs[B.markdown_files[k].path] = "" }

C9_FailedInserts == { k \in 1..Len(B.insert_calls) : ~B.insert_calls[k].ok }

\* the intermediate location of the example: a.md empty, b.md "hello"
C9_Example ==
    /\ DOMAIN store.markdown = {"markdown/a.md", "markdown/b.md"}
    /\ store.markdown["markdown/a.md"] = ""
    /\ store.markdown["markdown/b.md"] = "hello"
    /\ coord = "StageBDone"
    /\ C9_FailedInserts = {}

\* C9: no insert call carries an empty content; each file with empty content
\* adds exactly one to "failed" and the loop goes on; with a.md empty and
\* b.md "hello", b.md is inserted once into the resolved vector database
\* under the document id b.md and the counts are 2 processed, 1 embedded,
\* 1 failed.
C9_EmptyNeverInserted ==
    /\ \A k \in 1..Len(B.insert_calls) : B.insert_calls[k].content # ""
    /\ B.pc \in {"embed", "returned"} =>
          /\ B.failed = Cardinality(C9_EmptyFiles(B.idx - 1)) + Cardinality(C9_FailedInserts)
          /\ Len(B.insert_calls) = (B.idx - 1) - Cardinality(C9_EmptyFiles(B.idx - 1))
    /\ (B.pc = "returned" /\ Len(B.markdown_files) > 0) =>
          B.idx = Len(B.markdown_files) + 1
    /\ C9_Example =>
          /\ Len(B.markdown_files) = 2
          /\ B.successful = 1
          /\ B.failed = 1
          /\ Len(B.insert_calls) = 1
          /\ B.insert_calls[1].document_id = "b.md"
          /\ B.insert_calls[1].content = "hello"
          /\ B.insert_calls[1].vector_db_id = B.actual_vector_db_id
          /\ B.actual_vector_db_id # None

C9_Witness == C9_Example /\ B.successful = 1 /\ B.failed = 1

\* C10: a failure that concerns one document never makes a stage raise: once
\* a conversion, an upload or an insert has failed, or a file was empty, the
\* stage goes on and does not end raising.
C10_PerItemNeverFatal ==
    /\ (\E k \in 1..Len(A.convert_calls) : A.convert_calls[k] = "raise")
          => A.pc # "raised"
    /\ (\E c \in A.fput_calls : c.outcome # "ok") => A.pc # "raised"
    /\ (B.failed > 0) => B.pc # "raised"

\* the intermediate location exists and holds no Markdown artifact
C11_NoArtifacts ==
    /\ store.markdown_exists
    /\ \A key \in DOMAIN store.markdown :
          ~(SubSeq(key, 1, 9) = "markdown/"
              /\ SubSeq(key, Len(key) - 2, Len(key)) \in {".md", ".MD", ".Md", ".mD"})

\* model discovery and collection resolution are done: a model is chosen
\* and the vector database Stage B uses is one the service holds for the
\* target, registered by this run when register was called
C11_SetupDone ==
    /\ B.embedding_model_id # None
    /\ B.actual_vector_db_id # None
    /\ \E k \in C7_Matching : svc.vector_dbs[k].identifier = B.actual_vector_db_id
    /\ B.register_calls = 1 =>
          svc.vector_dbs[Len(svc.vector_dbs)].identifier = B.actual_vector_db_id

====
